---------------------------- MODULE Spec2Model ----------------------------
(***************************************************************************)
(* Resume-Sudharak: the feedback retriever (analyze_resume_with_llm), the  *)
(* similarity scorer (match_score) and the Streamlit page (main,           *)
(* configure_api_key) that calls them.                                     *)
(*                                                                         *)
(* A text is a sequence of one-character strings.  A score is kept in      *)
(* hundredths of a percent, so that 10000 stands for 100.0.                *)
(***************************************************************************)
EXTENDS Integers, Sequences, FiniteSets, TLC

(***************************************************************************)
(* Bounds of the model.                                                    *)
(***************************************************************************)
\* longest short text the retriever is called with
MaxLen == 2
\* how far past the truncation limit the long resumes reach
MaxOver == 2
\* how many fragments the texts given to match_score are made of
MaxPieces == 2

(***************************************************************************)
(* Program constants (feedback_generator.py).                              *)
(***************************************************************************)
DEFAULT_MODEL == "command-a-03-2025"
MAX_RETRIES == 3
RETRY_DELAY == 10
\* the slice bound of resume_text[:8000]
RESUME_SLICE == 8000

\* Python's None, as a value no text equals
None == <<"None">>

\* no exception raised
NoException == [type |-> "None", msg |-> ""]

\* None where a client is expected; a client is [key, validated], validated
\* telling whether configure_api_key's chat call on it has returned
NoneClient == [key |-> "None", validated |-> FALSE]

\* cohere.Client(key)
NewClient(key) == [key |-> key, validated |-> FALSE]

\* None where an uploaded file is expected
NoFile == [type |-> "None"]

(***************************************************************************)
(* Characters and Python's str operations.                                 *)
(***************************************************************************)
Whitespace == {" ", "\t", "\n"}

IsSpace(c) == c \in Whitespace

Min(a, b) == IF a <= b THEN a ELSE b

\* s[:n] for n >= 0
Slice(s, n) == SubSeq(s, 1, Min(Len(s), n))

\* s.strip(): s without its leading and trailing whitespace
Strip(s) ==
    IF \A i \in 1..Len(s) : IsSpace(s[i]) THEN << >>
    ELSE LET first == CHOOSE i \in 1..Len(s) :
                         /\ ~IsSpace(s[i])
                         /\ \A j \in 1..(i - 1) : IsSpace(s[j])
             last  == CHOOSE i \in 1..Len(s) :
                         /\ ~IsSpace(s[i])
                         /\ \A j \in (i + 1)..Len(s) : IsSpace(s[j])
         IN  SubSeq(s, first, last)

\* Python truthiness of a str
Truthy(s) == s # << >>

NotProvided == <<"N", "o", "t", " ", "p", "r", "o", "v", "i", "d", "e", "d">>

\* the prompt with the resume embedded whole
BuildPrompt_NoTruncation(rt, jr, jd) ==
    [ job_role        |-> jr,
      job_description |-> IF Truthy(jd) THEN jd ELSE NotProvided,
      resume_content  |-> rt ]

(***************************************************************************)
(* The prompt of analyze_resume_with_llm: the fixed template with its      *)
(* three holes.                                                            *)
(***************************************************************************)
BuildPrompt(rt, jr, jd) ==
    [ job_role        |-> jr,
      job_description |-> IF Truthy(jd) THEN jd ELSE NotProvided,
      resume_content  |-> Slice(rt, RESUME_SLICE) ]

(***************************************************************************)
(* Inputs.                                                                 *)
(***************************************************************************)
TextsUpTo(S, n) == UNION { [1..k -> S] : k \in 0..n }

\* the pattern pat repeated up to length n
Repeat(pat, n) == SubSeq([i \in 1..n |-> pat[((i - 1) % Len(pat)) + 1]], 1, n)

LongResumes ==
    { Repeat(<<"a", "b", "!">>, RESUME_SLICE + d) : d \in (0 - 1)..MaxOver }
        \cup { Repeat(<<" ">>, RESUME_SLICE) \o <<"a">> }

ResumeTexts == TextsUpTo({" ", "a", "!"}, MaxLen) \cup LongResumes

JobRoles == TextsUpTo({" ", "a"}, MaxLen) \cup { <<"\n">>, <<"\t", " ">> }

JobDescriptions == { << >>, <<" ">>, <<"a", "b">> }

ResponseTexts == { << >>, <<"o", "k">> }

(***************************************************************************)
(* match_score: CountVectorizer().fit_transform, cosine_similarity, round. *)
(***************************************************************************)
UpperCase == <<"A", "B", "C", "D", "E", "F", "G", "H", "I", "J", "K", "L", "M",
               "N", "O", "P", "Q", "R", "S", "T", "U", "V", "W", "X", "Y", "Z">>

LowerCase == <<"a", "b", "c", "d", "e", "f", "g", "h", "i", "j", "k", "l", "m",
               "n", "o", "p", "q", "r", "s", "t", "u", "v", "w", "x", "y", "z">>

Digits == {"0", "1", "2", "3", "4", "5", "6", "7", "8", "9"}

\* the characters the regular expression \w matches
IsWord(c) ==
    \/ \E i \in 1..26 : c = UpperCase[i] \/ c = LowerCase[i]
    \/ c \in Digits
    \/ c = "_"

\* str.lower(), character by character
Lower(s) ==
    [i \in 1..Len(s) |->
        IF \E k \in 1..26 : s[i] = UpperCase[k]
        THEN LowerCase[CHOOSE k \in 1..26 : s[i] = UpperCase[k]]
        ELSE s[i]]

\* where the matches of the token pattern \b\w\w+\b start in s: at the
\* start of each maximal run of word characters that is two or more long
TokenStarts(s) ==
    { i \in 1..Len(s) :
        /\ IsWord(s[i])
        /\ i = 1 \/ ~IsWord(s[i - 1])
        /\ i < Len(s) /\ IsWord(s[i + 1]) }

\* the match that starts at i: the whole run of word characters
TokenAt(s, i) ==
    LET j == CHOOSE e \in i..Len(s) :
                /\ \A k \in i..e : IsWord(s[k])
                /\ e = Len(s) \/ ~IsWord(s[e + 1])
    IN  SubSeq(s, i, j)

\* the analyzer: lowercase, then every match of the token pattern
Tokens(doc) == { TokenAt(Lower(doc), i) : i \in TokenStarts(Lower(doc)) }

\* how often token t occurs in doc
TermCount(doc, t) ==
    Cardinality({ i \in TokenStarts(Lower(doc)) : TokenAt(Lower(doc), i) = t })

\* fit_transform: the vocabulary of the documents and each document's
\* counts over it; an empty vocabulary raises ValueError
CountVectorize(docs) ==
    LET vocabulary == UNION { Tokens(docs[d]) : d \in 1..Len(docs) }
    IN  [ vocabulary |-> vocabulary,
          X |-> [d \in 1..Len(docs) |-> [t \in vocabulary |-> TermCount(docs[d], t)]],
          raised |-> IF vocabulary = {}
                     THEN [type |-> "ValueError", msg |-> "empty vocabulary"]
                     ELSE NoException ]

RECURSIVE Dot(_, _, _)
\* the inner product of rows x and y over the columns S
Dot(x, y, S) ==
    IF S = {} THEN 0
    ELSE LET t == CHOOSE u \in S : TRUE
         IN  x[t] * y[t] + Dot(x, y, S \ {t})

RECURSIVE ISqrtIn(_, _, _)
\* the largest m in lo..hi with m * m <= n, given lo * lo <= n
ISqrtIn(n, lo, hi) ==
    IF lo = hi THEN lo
    ELSE LET mid == (lo + hi + 1) \div 2
         IN  IF mid * mid <= n THEN ISqrtIn(n, mid, hi) ELSE ISqrtIn(n, lo, mid - 1)

RECURSIVE SumOf(_, _)
\* the sum of row x over the columns S
SumOf(x, S) ==
    IF S = {} THEN 0
    ELSE LET t == CHOOSE u \in S : TRUE
         IN  x[t] + SumOf(x, S \ {t})

\* the rows normalised by their L1 norms instead of their L2 norms
CosineSimilarity_L1Norm(X, cols, i, j) ==
    LET si == SumOf(X[i], cols)
        sj == SumOf(X[j], cols)
    IN  IF si = 0 \/ sj = 0
        THEN [num |-> 0, den2 |-> 1]
        ELSE [num |-> Dot(X[i], X[j], cols), den2 |-> (si * sj) * (si * sj)]

\* cosine_similarity(X)[i][j], as the exact value num / sqrt(den2): the rows
\* are L2-normalised, a zero row staying zero, and multiplied
CosineSimilarity(X, cols, i, j) ==
    LET ni == Dot(X[i], X[i], cols)
        nj == Dot(X[j], X[j], cols)
    IN  IF ni = 0 \/ nj = 0
        THEN [num |-> 0, den2 |-> 1]
        ELSE [num |-> Dot(X[i], X[j], cols), den2 |-> ni * nj]

\* round(score * 100, 2) in hundredths of a percent, for
\* score = num / sqrt(den2): floor(10000 * score + 1/2)
RoundPercent(c) ==
    LET A == 400000000
        B == c.num * c.num
        \* floor(A * B / den2), without forming A * B
        q == (A \div c.den2) * B + ((A % c.den2) * B) \div c.den2
        \* floor(20000 * score)
        m == ISqrtIn(q, 0, 46340)
    IN  (m + 1) \div 2

\* the score read at [0][0], the first text against itself
match_score_SelfCell(a, b) ==
    LET v == CountVectorize(<<a, b>>)
    IN  IF v.raised # NoException
        THEN [raised |-> v.raised, value |-> 0]
        ELSE [raised |-> NoException,
              value |-> RoundPercent(CosineSimilarity(v.X, v.vocabulary, 1, 1))]

\* match_score(resume_text, job_description): the value is in hundredths
\* of a percent (10000 is 100.0)
match_score(a, b) ==
    LET v == CountVectorize(<<a, b>>)
    IN  IF v.raised # NoException
        THEN [raised |-> v.raised, value |-> 0]
        ELSE [raised |-> NoException,
              value |-> RoundPercent(CosineSimilarity(v.X, v.vocabulary, 1, 2))]

RECURSIVE Flatten(_)
Flatten(ps) == IF ps = << >> THEN << >> ELSE Head(ps) \o Flatten(Tail(ps))

Pieces ==
    { <<"a", "b">>, <<"a", "b", " ">>, <<"C", "d", " ">>, <<"c", "d">>,
      <<"a", " ">>, <<"!">> }

ScoreTexts == { Flatten(ps) : ps \in TextsUpTo(Pieces, MaxPieces) }

VARIABLES
    text_a,           \* match_score's arguments
    text_b,
    score,            \* what match_score returned or raised, NotScored before
    resume_text,      \* analyze_resume_with_llm's arguments
    job_role,
    job_description,
    cohere_client,
    pc,               \* where the call stands: "off", "start", "call", "sleep", "done"
    attempt,          \* the loop variable of line 59
    prompt,           \* the prompt built at lines 38-56, None before
    result,           \* the returned text, None if none
    raised,           \* the exception the call ended with, NoException if none
    events,           \* the chat calls and sleeps of this call, in order
    sent,             \* the messages passed to cohere_client.chat
    warnings,         \* the attempt numbers logged by logger.warning
    slept,            \* seconds spent in time.sleep
    ss_feedback,          \* st.session_state.feedback
    ss_resume_text,       \* st.session_state.resume_text
    ss_analysis_done,     \* st.session_state.analysis_done
    ss_api_key_configured,\* st.session_state.api_key_configured
    ss_cohere_client,     \* st.session_state.cohere_client
    apc,              \* where the script run stands; "idle" between runs
    api_key,          \* main's locals: the widgets' values in this run
    w_job_role,
    w_job_description,
    uploaded_file,
    clicked,
    m_resume_text,    \* main's resume_text
    run,              \* what this run has done so far, in order
    shown             \* what lines 144-163 displayed

rvars == <<resume_text, job_role, job_description, cohere_client, pc, attempt, prompt,
           result, raised, events, sent, warnings, slept>>

svars == <<text_a, text_b, score>>

ssvars == <<ss_feedback, ss_resume_text, ss_analysis_done, ss_api_key_configured,
            ss_cohere_client>>

lvars == <<api_key, w_job_role, w_job_description, uploaded_file, clicked,
           m_resume_text, run, shown>>

avars == <<ssvars, apc, lvars>>

vars == <<rvars, svars, avars>>

NotScored == [raised |-> NoException, value |-> 0 - 1]

\* no call of analyze_resume_with_llm is under way
RetrieverOff ==
    /\ resume_text = None
    /\ job_role = None
    /\ job_description = None
    /\ cohere_client = NoneClient
    /\ pc = "off"
    /\ attempt = 0
    /\ prompt = None
    /\ result = None
    /\ raised = NoException
    /\ events = << >>
    /\ sent = {}
    /\ warnings = << >>
    /\ slept = 0

\* lines 11-21: the session state a new session starts with
SessionDefaults ==
    /\ ss_feedback = None
    /\ ss_resume_text = None
    /\ ss_analysis_done = FALSE
    /\ ss_api_key_configured = FALSE
    /\ ss_cohere_client = NoneClient

\* main's locals before the run has set them
LocalsUnset ==
    /\ api_key = None
    /\ w_job_role = None
    /\ w_job_description = None
    /\ uploaded_file = NoFile
    /\ clicked = FALSE
    /\ m_resume_text = None
    /\ run = << >>
    /\ shown = "nothing"

\* no page is being served
AppOff ==
    /\ SessionDefaults
    /\ LocalsUnset
    /\ apc = "off"

\* no call of match_score was made
ScorerOff ==
    /\ text_a = None
    /\ text_b = None
    /\ score = NotScored

(***************************************************************************)
(* analyze_resume_with_llm                                                 *)
(***************************************************************************)
\* entry: the call starts with these arguments
Enter(rt, jr, jd, co) ==
    /\ resume_text = rt
    /\ job_role = jr
    /\ job_description = jd
    /\ cohere_client = co
    /\ pc = "start"
    /\ attempt = 0
    /\ prompt = None
    /\ result = None
    /\ raised = NoException
    /\ events = << >>
    /\ sent = {}
    /\ warnings = << >>
    /\ slept = 0

\* the input checks without the strip()
InputError_NoStrip(rt, jr) ==
    IF ~Truthy(rt)
    THEN [type |-> "ValueError", msg |-> "Resume text cannot be empty"]
    ELSE IF ~Truthy(jr)
    THEN [type |-> "ValueError", msg |-> "Job role cannot be empty"]
    ELSE NoException

\* lines 32-35: which input check rejects, NoException if none
InputError(rt, jr) ==
    IF ~Truthy(Strip(rt))
    THEN [type |-> "ValueError", msg |-> "Resume text cannot be empty"]
    ELSE IF ~Truthy(Strip(jr))
    THEN [type |-> "ValueError", msg |-> "Job role cannot be empty"]
    ELSE NoException

\* line 71: the failure after the loop
Exhausted ==
    [type |-> "Exception", msg |-> "Failed to analyze resume after multiple attempts."]

\* a loop that gives up one attempt early
InRange_OneLess(a) == a < MAX_RETRIES - 1

\* a loop that makes one attempt more
InRange_OneMore(a) == a <= MAX_RETRIES

\* line 59: the loop goes on while attempt is in range(MAX_RETRIES)
InRange(a) == a < MAX_RETRIES

\* line 68: the sleep after a failed attempt
SleepSeconds(a) == RETRY_DELAY

\* lines 31-59: input validation, prompt construction, loop entry
Validate ==
    /\ pc = "start"
    /\ IF InputError(resume_text, job_role) # NoException
       THEN /\ raised' = InputError(resume_text, job_role)
            /\ pc' = "done"
            /\ UNCHANGED prompt
       ELSE /\ prompt' = BuildPrompt(resume_text, job_role, job_description)
            /\ IF InRange(attempt)
               THEN pc' = "call" /\ UNCHANGED raised
               ELSE /\ pc' = "done"
                    /\ raised' = Exhausted
    /\ UNCHANGED <<resume_text, job_role, job_description, cohere_client, attempt, result,
                   events, sent, warnings, slept>>
    /\ UNCHANGED <<svars, avars>>

\* the chat call returns and the loop goes on instead of returning
ChatOk_NoReturn ==
    /\ pc = "call"
    /\ Len(events) < 2 * MAX_RETRIES
    /\ \E text \in ResponseTexts :
          /\ result' = text
          /\ events' = Append(events, [op |-> "chat", model |-> DEFAULT_MODEL,
                                       ok |-> TRUE, text |-> text])
    /\ sent' = sent \cup {prompt}
    /\ UNCHANGED <<resume_text, job_role, job_description, cohere_client, pc, attempt, prompt,
                   raised, warnings, slept>>
    /\ UNCHANGED <<svars, avars>>

\* lines 61-65: the chat call returns; its text is returned
ChatOk ==
    /\ pc = "call"
    /\ \E text \in ResponseTexts :
          /\ result' = text
          /\ events' = Append(events, [op |-> "chat", model |-> DEFAULT_MODEL,
                                       ok |-> TRUE, text |-> text])
    /\ sent' = sent \cup {prompt}
    /\ pc' = "done"
    /\ UNCHANGED <<resume_text, job_role, job_description, cohere_client, attempt, prompt,
                   raised, warnings, slept>>
    /\ UNCHANGED <<svars, avars>>

\* lines 61-67: the chat call raises; the warning is logged
ChatFail ==
    /\ pc = "call"
    /\ events' = Append(events, [op |-> "chat", model |-> DEFAULT_MODEL,
                                 ok |-> FALSE, text |-> None])
    /\ sent' = sent \cup {prompt}
    /\ warnings' = Append(warnings, attempt + 1)
    /\ pc' = "sleep"
    /\ UNCHANGED <<resume_text, job_role, job_description, cohere_client, attempt, prompt,
                   result, raised, slept>>
    /\ UNCHANGED <<svars, avars>>

\* lines 68, 59, 71: the sleep, then the next attempt or the final raise
Sleep ==
    /\ pc = "sleep"
    /\ events' = Append(events, [op |-> "sleep", seconds |-> SleepSeconds(attempt)])
    /\ slept' = slept + SleepSeconds(attempt)
    /\ attempt' = attempt + 1
    /\ IF InRange(attempt + 1)
       THEN pc' = "call" /\ UNCHANGED raised
       ELSE /\ pc' = "done"
            /\ raised' = Exhausted
    /\ UNCHANGED <<resume_text, job_role, job_description, cohere_client, prompt, result,
                   sent, warnings>>
    /\ UNCHANGED <<svars, avars>>

Init ==
    /\ \E rt \in ResumeTexts, jr \in JobRoles, jd \in JobDescriptions :
          Enter(rt, jr, jd, NewClient("stub"))
    /\ ScorerOff
    /\ AppOff

Next ==
    \/ Validate
    \/ ChatOk
    \/ ChatFail
    \/ Sleep

Spec == Init /\ [][Next]_vars

FairSpec == Init /\ [][Next]_vars /\ WF_vars(Next)

(***************************************************************************)
(* match_score, called on a pair of texts.                                 *)
(***************************************************************************)
ScorerInit ==
    /\ text_a \in ScoreTexts
    /\ text_b \in ScoreTexts
    /\ score = NotScored
    /\ RetrieverOff
    /\ AppOff

ScoreCall ==
    /\ score = NotScored
    /\ score' = match_score(text_a, text_b)
    /\ UNCHANGED <<text_a, text_b>>
    /\ UNCHANGED <<rvars, avars>>

ScorerNext == ScoreCall

ScorerSpec == ScorerInit /\ [][ScorerNext]_vars

(***************************************************************************)
(* The page: each script run executes main from the top.                   *)
(***************************************************************************)
\* the keys a user may type; the text typed is <<key>>, and << >> when the
\* field is left empty
ApiKeys == {"key1", "key2"}

AppJobRoles == { << >>, <<" ">>, <<"a", "b">> }

AppJobDescriptions == { << >>, <<"!">>, <<"a", "b">> }

UploadedFiles ==
    { [type |-> "application/pdf"],
      [type |-> "application/vnd.openxmlformats-officedocument.wordprocessingml.document"] }

\* what extract_text_from_pdf and extract_text_from_docx may return
ExtractedTexts == { <<" ">>, <<"!">>, <<"a", "b">> }

\* a script run ends: its locals are gone
EndRun ==
    /\ apc' = "idle"
    /\ api_key' = None
    /\ w_job_role' = None
    /\ w_job_description' = None
    /\ uploaded_file' = NoFile
    /\ clicked' = FALSE
    /\ m_resume_text' = None

\* a user interaction starts the next script run
Rerun ==
    /\ apc = "idle"
    /\ apc' = "configure"
    /\ run' = << >>
    /\ shown' = "nothing"
    /\ UNCHANGED <<api_key, w_job_role, w_job_description, uploaded_file, clicked,
                   m_resume_text>>
    /\ UNCHANGED <<ssvars, rvars, svars>>

\* configure_api_key with the flag set and the client not stored
ConfigureApiKey_FlagOnly(key, valid) ==
    IF Truthy(key) /\ valid
    THEN /\ ss_api_key_configured' = TRUE
         /\ UNCHANGED ss_cohere_client
    ELSE IF Truthy(key)
    THEN /\ ss_api_key_configured' = FALSE
         /\ UNCHANGED ss_cohere_client
    ELSE UNCHANGED <<ss_api_key_configured, ss_cohere_client>>

\* lines 29-51, configure_api_key: key is the text input's value, valid
\* tells whether the validation chat call on the new client returns
ConfigureApiKey(key, valid) ==
    IF Truthy(key) /\ valid
    THEN /\ ss_api_key_configured' = TRUE
         /\ ss_cohere_client' = [NewClient(key) EXCEPT !.validated = TRUE]
    ELSE IF Truthy(key)
    THEN /\ ss_api_key_configured' = FALSE
         /\ UNCHANGED ss_cohere_client
    ELSE UNCHANGED <<ss_api_key_configured, ss_cohere_client>>

\* lines 60-63: configure_api_key, then the early return
Configure ==
    /\ apc = "configure"
    /\ \E key \in {<< >>} \cup { <<k>> : k \in ApiKeys }, valid \in BOOLEAN :
          /\ ConfigureApiKey(key, valid)
          /\ IF ss_api_key_configured'
             THEN /\ apc' = "form"
                  /\ api_key' = (IF Truthy(key) /\ valid THEN key ELSE None)
                  /\ UNCHANGED <<w_job_role, w_job_description, uploaded_file,
                                 clicked, m_resume_text>>
             ELSE EndRun
    /\ UNCHANGED <<ss_feedback, ss_resume_text, ss_analysis_done, run, shown>>
    /\ UNCHANGED <<rvars, svars>>

\* lines 144-163: the feedback report, or the hint
Report ==
    IF ss_feedback # None /\ Truthy(ss_feedback) THEN "report"
    ELSE IF ss_analysis_done THEN "info"
    ELSE "nothing"

\* lines 65-85 and 144-163: the widgets are read; without a file, a job role
\* and a click on Analyze the run goes straight to the report
Form ==
    /\ apc = "form"
    /\ \E jr \in AppJobRoles, jd \in AppJobDescriptions,
          file \in {NoFile} \cup UploadedFiles, click \in BOOLEAN :
          IF file # NoFile /\ Truthy(jr) /\ click
          THEN /\ w_job_role' = jr
               /\ w_job_description' = jd
               /\ uploaded_file' = file
               /\ clicked' = click
               /\ apc' = "extract"
               /\ UNCHANGED <<api_key, m_resume_text, shown>>
          ELSE /\ shown' = Report
               /\ EndRun
    /\ UNCHANGED <<ssvars, run>>
    /\ UNCHANGED <<rvars, svars>>

\* the arguments main passes to analyze_resume_with_llm
CallAnalyze(text) ==
    /\ resume_text' = text
    /\ job_role' = w_job_role
    /\ job_description' = w_job_description
    /\ cohere_client' = ss_cohere_client
    /\ pc' = "start"
    /\ UNCHANGED <<attempt, prompt, result, raised, events, sent, warnings, slept>>

\* lines 86-104: the text is extracted; blank text or an exception ends the
\* run, otherwise analyze_resume_with_llm is called
Extract ==
    /\ apc = "extract"
    /\ \/ \E text \in ExtractedTexts :
             IF ~Truthy(Strip(text))
             THEN /\ run' = Append(run, "extract_blank")
                  /\ EndRun
                  /\ UNCHANGED <<ss_resume_text, shown>>
                  /\ UNCHANGED rvars
             ELSE /\ run' = run \o <<"extract", "analyze">>
                  /\ ss_resume_text' = text
                  /\ m_resume_text' = text
                  /\ CallAnalyze(text)
                  /\ apc' = "analyze"
                  /\ UNCHANGED <<api_key, w_job_role, w_job_description,
                                 uploaded_file, clicked, shown>>
       \/ /\ run' = Append(run, "extract_raised")
          /\ EndRun
          /\ UNCHANGED <<ss_resume_text, shown>>
          /\ UNCHANGED rvars
    /\ UNCHANGED <<ss_feedback, ss_analysis_done, ss_api_key_configured,
                   ss_cohere_client>>
    /\ UNCHANGED svars

\* analyze_resume_with_llm's frame is gone
LeaveAnalyze ==
    /\ resume_text' = None
    /\ job_role' = None
    /\ job_description' = None
    /\ cohere_client' = NoneClient
    /\ pc' = "off"
    /\ attempt' = 0
    /\ prompt' = None
    /\ result' = None
    /\ raised' = NoException
    /\ events' = << >>
    /\ sent' = {}
    /\ warnings' = << >>
    /\ slept' = 0

\* the call's exception is shown and the run goes on to the match score
AnalyzeReturn_NoReturnOnError ==
    /\ apc = "analyze"
    /\ pc = "done"
    /\ LeaveAnalyze
    /\ IF raised = NoException
       THEN /\ ss_feedback' = result
            /\ ss_analysis_done' = TRUE
            /\ run' = Append(run, "analyze_returned")
       ELSE /\ run' = Append(run, "analyze_raised")
            /\ UNCHANGED <<ss_feedback, ss_analysis_done>>
    /\ IF Truthy(w_job_description)
       THEN /\ apc' = "score"
            /\ UNCHANGED <<api_key, w_job_role, w_job_description,
                           uploaded_file, clicked, m_resume_text, shown>>
       ELSE /\ shown' = Report'
            /\ EndRun
    /\ UNCHANGED <<ss_resume_text, ss_api_key_configured, ss_cohere_client>>
    /\ UNCHANGED svars

\* lines 105-113 and 144-163: the call has returned or raised; an exception
\* ends the run, and without a job description the run goes to the report
AnalyzeReturn ==
    /\ apc = "analyze"
    /\ pc = "done"
    /\ LeaveAnalyze
    /\ IF raised = NoException
       THEN /\ ss_feedback' = result
            /\ ss_analysis_done' = TRUE
            /\ run' = Append(run, "analyze_returned")
            /\ IF Truthy(w_job_description)
               THEN /\ apc' = "score"
                    /\ UNCHANGED <<api_key, w_job_role, w_job_description,
                                   uploaded_file, clicked, m_resume_text, shown>>
               ELSE /\ shown' = Report'
                    /\ EndRun
       ELSE /\ run' = Append(run, "analyze_raised")
            /\ EndRun
            /\ UNCHANGED <<ss_feedback, ss_analysis_done, shown>>
    /\ UNCHANGED <<ss_resume_text, ss_api_key_configured, ss_cohere_client>>
    /\ UNCHANGED svars

\* lines 114-163: match_score and the charts, then the report; an exception
\* of match_score is not caught and ends the run
Score ==
    /\ apc = "score"
    /\ text_a' = m_resume_text
    /\ text_b' = w_job_description
    /\ score' = match_score(m_resume_text, w_job_description)
    /\ run' = Append(run, "match_score")
    /\ shown' = (IF score'.raised = NoException THEN Report ELSE "exception")
    /\ EndRun
    /\ UNCHANGED ssvars
    /\ UNCHANGED rvars

AppInit ==
    /\ SessionDefaults
    /\ LocalsUnset
    /\ apc = "configure"
    /\ RetrieverOff
    /\ ScorerOff

AppNext ==
    \/ Rerun
    \/ Configure
    \/ Form
    \/ Extract
    \/ Validate
    \/ ChatOk
    \/ ChatFail
    \/ Sleep
    \/ AnalyzeReturn
    \/ Score

AppSpec == AppInit /\ [][AppNext]_vars

(***************************************************************************)
(* Properties of analyze_resume_with_llm.                                  *)
(***************************************************************************)
IsBlank(s) == \A i \in 1..Len(s) : IsSpace(s[i])

ValidInput == ~IsBlank(resume_text) /\ ~IsBlank(job_role)

Chats == SelectSeq(events, LAMBDA e : e.op = "chat")

Sleeps == SelectSeq(events, LAMBDA e : e.op = "sleep")

\* the first k chat calls failed and call k+1 succeeded
FailedThenOk(k) ==
    /\ Len(Chats) >= k + 1
    /\ \A i \in 1..k : ~Chats[i].ok
    /\ Chats[k + 1].ok

AllFailed == \A i \in 1..Len(Chats) : ~Chats[i].ok

\* C1: a call whose resume text or job role is blank after trimming makes
\* no chat call and no sleep, returns nothing, and ends with a ValueError.
BlankInputRejected ==
    (pc # "off" /\ ~ValidInput) =>
        /\ events = << >>
        /\ sent = {}
        /\ slept = 0
        /\ result = None
        /\ pc \in {"start", "done"}
        /\ pc = "done" => raised.type = "ValueError"

BlankInputRejectedWitness ==
    /\ pc = "done"
    /\ ~IsBlank(resume_text)
    /\ resume_text # << >>
    /\ job_role # << >>
    /\ IsBlank(job_role)
    /\ raised.type = "ValueError"

\* C2: with valid inputs, when the client fails on its first k calls
\* (k in 0..2) and then succeeds, the call has returned the text of that
\* response, the client was invoked exactly k+1 times, and nothing was
\* raised; without a successful response nothing is returned.
FirstSuccessReturned ==
    /\ \A k \in 0..(MAX_RETRIES - 1) :
          FailedThenOk(k) =>
              /\ pc = "done"
              /\ result = Chats[k + 1].text
              /\ raised = NoException
              /\ Len(Chats) = k + 1
    /\ AllFailed => result = None
    /\ (pc = "call" /\ ValidInput) => attempt = Len(Chats)

FirstSuccessReturnedWitness ==
    /\ FailedThenOk(2)
    /\ pc = "done"
    /\ result = <<"o", "k">>
    /\ Len(Chats) = 3

\* C3: with valid inputs and a client whose every call fails, the call ends
\* by raising the generic failure, after exactly MAX_RETRIES chat calls, and
\* returns no text.
ExhaustedAfterMaxRetries ==
    (pc = "done" /\ ValidInput /\ AllFailed) =>
        /\ raised = Exhausted
        /\ Len(Chats) = MAX_RETRIES
        /\ warnings = [i \in 1..MAX_RETRIES |-> i]
        /\ result = None

ExhaustedAfterMaxRetriesWitness ==
    /\ pc = "done"
    /\ raised = Exhausted
    /\ Len(Chats) = 3
    /\ AllFailed

\* C4: the retry loop sleeps at most (MAX_RETRIES-1) x RETRY_DELAY seconds:
\* at most MAX_RETRIES-1 sleeps happen, and the call does not end on a sleep.
SleepOnlyBetweenAttempts ==
    /\ slept <= (MAX_RETRIES - 1) * RETRY_DELAY
    /\ Len(Sleeps) <= MAX_RETRIES - 1
    /\ (pc = "done" /\ events # << >>) => events[Len(events)].op # "sleep"

(***************************************************************************)
(* The retriever as the state machine Idle -> Requesting ->                *)
(* {Success, Failed}.                                                      *)
(***************************************************************************)
RState ==
    CASE pc = "start" -> "Idle"
      [] pc \in {"call", "sleep"} -> "Requesting"
      [] pc = "done" /\ raised = NoException -> "Success"
      [] pc = "done" /\ raised # NoException -> "Failed"
      [] OTHER -> "NotCalled"

\* the number of times Requesting was entered or re-entered
Entries == IF pc = "call" THEN Len(Chats) + 1 ELSE Len(Chats)

MachineStep ==
    /\ (RState = "Idle" /\ ValidInput) => RState' = "Requesting"
    /\ RState = "Requesting" => RState' \in {"Requesting", "Success", "Failed"}
    /\ RState \in {"Success", "Failed"} => UNCHANGED vars
    /\ Entries' <= 1 + (MAX_RETRIES - 1)

\* C5: from Idle with valid input the retriever enters Requesting; Requesting
\* is entered at most 1 + 2 times; Success and Failed are terminal; and every
\* call eventually reaches Success or Failed.
RetrieverStateMachine ==
    /\ [][MachineStep]_vars
    /\ <>(RState \in {"Success", "Failed"})

RetrieverStateMachineWitness ==
    /\ RState = "Failed"
    /\ ValidInput
    /\ Len(Chats) = 3

\* C6: every prompt sent to the client embeds exactly the first
\* min(length, 8000) characters of the resume text.
PromptEmbedsTruncatedResume ==
    /\ \A m \in sent :
          /\ Len(m.resume_content) = Min(Len(resume_text), 8000)
          /\ \A i \in 1..Len(m.resume_content) : m.resume_content[i] = resume_text[i]
    /\ events # << >> => sent # {}

PromptEmbedsTruncatedResumeWitness ==
    \E m \in sent :
        /\ Len(resume_text) > 8000
        /\ Len(m.resume_content) = 8000

(***************************************************************************)
(* Properties of match_score.                                              *)
(***************************************************************************)
Scored == score # NotScored

\* s holds two adjacent word characters, so the token pattern matches in it
HasToken(s) == \E i \in 1..(Len(s) - 1) : IsWord(s[i]) /\ IsWord(s[i + 1])

\* C7 as stated: match_score(t, t) returns 100.0 for every non-empty text t.
IdenticalScore100 ==
    (Scored /\ text_a = text_b /\ text_a # << >>) =>
        score = [raised |-> NoException, value |-> 10000]

\* C7 as amended: match_score(t, t) returns 100.0 for every text t in which
\* the token pattern matches, and raises ValueError for every other t.
IdenticalScore100IfToken ==
    (Scored /\ text_a = text_b) =>
        /\ HasToken(text_a) => score = [raised |-> NoException, value |-> 10000]
        /\ ~HasToken(text_a) => score.raised.type = "ValueError"

IdenticalScore100IfTokenWitness ==
    /\ Scored
    /\ text_a = text_b
    /\ text_a = <<"a", "b", " ", "a", "b">>
    /\ score.value = 10000

\* C8 as stated: match_score(a, b) returns 0.0 for every pair of texts with
\* no token in common.
DisjointScore0 ==
    (Scored /\ Tokens(text_a) \cap Tokens(text_b) = {}) =>
        score = [raised |-> NoException, value |-> 0]

\* C8 as amended: match_score(a, b) returns 0.0 for every pair of texts with
\* no token in common of which at least one holds a token; when neither
\* holds a token it raises ValueError.
DisjointScore0IfToken ==
    (Scored /\ Tokens(text_a) \cap Tokens(text_b) = {}) =>
        /\ (HasToken(text_a) \/ HasToken(text_b)) =>
              score = [raised |-> NoException, value |-> 0]
        /\ ~(HasToken(text_a) \/ HasToken(text_b)) =>
              score.raised.type = "ValueError"

DisjointScore0IfTokenWitness ==
    /\ Scored
    /\ text_a = <<"a", "b", " ", "a", "b">>
    /\ text_b = <<"C", "d", " ", "!">>
    /\ score.value = 0

(***************************************************************************)
(* Properties of the page.                                                 *)
(***************************************************************************)
IsPrefix(p, q) == Len(p) <= Len(q) /\ p = SubSeq(q, 1, Len(p))

\* the complete runs of lines 84-116
FullRuns ==
    { <<"extract", "analyze", "analyze_returned", "match_score">>,
      <<"extract", "analyze", "analyze_raised">>,
      <<"extract_blank">>,
      <<"extract_raised">> }

InRun(step) == \E i \in 1..Len(run) : run[i] = step

\* C9: in every run of main the steps come in the order extraction,
\* analyze_resume_with_llm, match_score; match_score is invoked only after
\* analyze_resume_with_llm has returned in the same run and only with a job
\* description; after a blank or failed extraction or a failed analysis it
\* is not invoked.
RunOrder ==
    /\ \E full \in FullRuns : IsPrefix(run, full)
    /\ pc # "off" => (apc = "analyze" /\ run = <<"extract", "analyze">>)
    /\ apc = "score" =>
          /\ run = <<"extract", "analyze", "analyze_returned">>
          /\ Truthy(w_job_description)
    /\ InRun("match_score") =>
          /\ Truthy(text_b)
          /\ text_a = ss_resume_text
          /\ ss_analysis_done
    /\ (InRun("extract_blank") \/ InRun("extract_raised") \/ InRun("analyze_raised"))
          => (~InRun("match_score") /\ apc = "idle")

RunOrderWitness ==
    /\ run = <<"extract", "analyze", "analyze_returned", "match_score">>
    /\ score = [raised |-> NoException, value |-> 10000]

\* C10: whenever api_key_configured is True the session's client is a
\* client, not None, on which the validation call returned; main goes past
\* line 63 only with api_key_configured True, and analyze_resume_with_llm is
\* never running with None as its client.
ConfiguredHasClient ==
    /\ ss_api_key_configured =>
          (ss_cohere_client # NoneClient /\ ss_cohere_client.validated)
    /\ apc \in {"form", "extract", "analyze", "score"} => ss_api_key_configured
    /\ pc # "off" => (cohere_client # NoneClient /\ cohere_client.validated)

ConfiguredHasClientWitness ==
    /\ pc = "call"
    /\ api_key = None
    /\ ss_api_key_configured
    /\ cohere_client = [key |-> <<"key2">>, validated |-> TRUE]

=============================================================================
